---- MODULE Spec2Model ----
(***************************************************************************)
(* Model of app.py: the watermark service's task registry (TASKS guarded   *)
(* by TASKS_LOCK), the upload and status request handlers, the eviction    *)
(* sweep cleanup_old_tasks and the background worker process_task with     *)
(* its image and video rendering pipelines.                                *)
(*                                                                         *)
(* Threads: one upload handler and (once started) one worker per request   *)
(* r \in Reqs, and one status poller.  Every `with TASKS_LOCK:` block is    *)
(* an acquire step followed by the steps of its body; the last body step   *)
(* releases the lock.  Python's None is the empty tuple, a present value   *)
(* v of an optional field is <<v>>.                                        *)
(***************************************************************************)
EXTENDS Integers, Sequences, FiniteSets, TLC

(* ---------------- bounds of the model ---------------- *)
MaxTasks == 2      \* size of the pool uuid4 draws task ids from
TickStep == 3600   \* seconds the clock advances in one Tick
MaxNow == 7200     \* the clock stops advancing here
MaxWidth == 20     \* canvas widths 1..MaxWidth are laid out
MaxCharsWidth == 40  \* the characters measure 0..MaxCharsWidth in all

(* ---------------- program constants ---------------- *)
RETENTION == 3600              \* cleanup_old_tasks: "> 3600"
DEFAULT_WIDTH == 1920          \* add_watermark_to_video: fallback width
PROBED_WIDTH == 1280           \* width ffprobe reports for the uploaded video
REF_SIZE == 100                \* get_optimal_font_size: ref_size
TARGET_WIDTH_PCT == 65         \* TARGET_WIDTH_RATIO = 0.65, in hundredths
SPACING == -4                  \* ref_size * LETTER_SPACING = 100 * -0.04
N_CHARS == 9                   \* len(WATERMARK_TEXT), "OTSU LABS"
FALLBACK_DIV == 10             \* int(img_width * 0.1)
IMAGE_EXTS == {".jpg", ".jpeg", ".png", ".bmp", ".tiff", ".webp"}
VIDEO_EXTS == {".mp4", ".mov", ".avi", ".mkv", ".webm"}

\* the upload requests of a run, numbered in order of arrival
Reqs == {1, 2}
TaskIds == 1..MaxTasks
None == << >>
Some(v) == << v >>
NoThread == <<"none", 0>>
UploadThread(r) == <<"upload", r>>
WorkerThread(r) == <<"worker", r>>
StatusThread == <<"status", 0>>

\* file names a client may send in the multipart form
Filenames == {"", "a.PNG", "b.mp4", "c.txt"}
\* request.files: either no 'file' part, or a part with a filename
Requests == {[has_file |-> FALSE, filename |-> ""]}
              \cup {[has_file |-> TRUE, filename |-> f] : f \in Filenames}
\* os.path.splitext(filename)[1].lower()
splitext_lower(f) ==
    CASE f = "a.PNG" -> ".png"
      [] f = "b.mp4" -> ".mp4"
      [] f = "c.txt" -> ".txt"
      [] OTHER -> ""
\* f"{task_id}{ext}" and f"watermarked_{task_id}{ext}"
input_filename(t, e) == [prefix |-> "", id |-> t, ext |-> e]
output_filename(t, e) == [prefix |-> "watermarked_", id |-> t, ext |-> e]
\* f"temp_wm_overlay_{uuid4().hex}.png": one fresh name per invocation
temp_wm_path(r) == [prefix |-> "temp_wm_overlay_", id |-> r, ext |-> ".png"]

VARIABLES
    TASKS,         \* the registry: a function whose DOMAIN is the dict's keys
    TASKS_LOCK,    \* the thread holding TASKS_LOCK, or NoThread
    now,           \* time.time()
    fontOK,        \* whether FONT_PATH can be loaded by ImageFont.truetype
    upc,           \* position of upload handler r
    request,       \* the request handler r serves
    task_id,       \* task id generated by handler r (0: none)
    to_remove,     \* cleanup_old_tasks: ids still to delete
    current_time,  \* cleanup_old_tasks: the time read under the lock
    before,        \* history: TASKS as the running sweep found it
    wpc,           \* position of the worker started by request r
    exc,           \* message of the exception in flight in worker r ("": none)
    uploads,       \* names of the files in UPLOAD_FOLDER
    output,        \* names of the files in OUTPUT_FOLDER
    spc,           \* position of the status handler
    sid,           \* the task id the status handler was asked for
    writes,        \* history: statuses written per task id, in order
    evicted,       \* history: ids whose entry a sweep has deleted
    fate,          \* what the libraries and tools answer to the job under study
    rendered,      \* history: what the rendering call of that job did
    img_width,     \* get_optimal_font_size: its argument
    chars_width,   \* get_optimal_font_size: the sum of char_w measured at ref_size
    font_size      \* get_optimal_font_size: the value returned (<<>>: none yet)

env == <<now, fontOK>>
reg == <<TASKS, TASKS_LOCK>>
uvars == <<upc, request, task_id, to_remove, current_time, before>>
wvars == <<wpc, exc>>
files == <<uploads, output>>
svars == <<spc, sid>>
hist == <<writes, evicted>>
\* the variables of the single-job and layout specifications; the service
\* as a whole leaves them alone
study == <<fate, rendered, img_width, chars_width, font_size>>
vars == <<TASKS, TASKS_LOCK, now, fontOK, upc, request, task_id, to_remove,
          current_time, before, wpc, exc, uploads, output, spc, sid,
          writes, evicted, fate, rendered, img_width, chars_width, font_size>>

EmptyMap == [t \in {} |-> None]

\* the service after start-up
InitApp ==
    /\ TASKS = EmptyMap
    /\ TASKS_LOCK = NoThread
    /\ now = 0
    /\ fontOK \in BOOLEAN
    /\ upc = [r \in Reqs |-> "idle"]
    /\ request = [r \in Reqs |-> [has_file |-> FALSE, filename |-> ""]]
    /\ task_id = [r \in Reqs |-> 0]
    /\ to_remove = [r \in Reqs |-> {}]
    /\ current_time = [r \in Reqs |-> 0]
    /\ before = [r \in Reqs |-> EmptyMap]
    /\ wpc = [r \in Reqs |-> "unstarted"]
    /\ exc = [r \in Reqs |-> ""]
    /\ uploads = {}
    /\ output = {}
    /\ spc = "idle"
    /\ sid = 0
    /\ writes = [t \in TaskIds |-> << >>]
    /\ evicted = {}

\* no call of get_optimal_font_size is under study
NoLayout ==
    /\ img_width = 0
    /\ chars_width = 0
    /\ font_size = None

Init ==
    /\ InitApp
    /\ fate = None
    /\ rendered = None
    /\ NoLayout

(* ---------------- the clock ---------------- *)
\* time.time() is only read inside `with TASKS_LOCK:` blocks, so an advance
\* of the clock while the lock is held is the same advance just before the
\* lock was taken
Tick ==
    /\ TASKS_LOCK = NoThread
    /\ now + TickStep <= MaxNow
    /\ now' = now + TickStep
    /\ UNCHANGED <<fontOK, study, reg, uvars, wvars, files, svars, hist>>

(* ---------------- TASKS_LOCK ---------------- *)
\* `with TASKS_LOCK:` entry: blocks until the lock is free
Acquire(th) ==
    /\ TASKS_LOCK = NoThread
    /\ TASKS_LOCK' = th

\* update_task_status with the result and error arguments stored in each
\* other's field
update_task_status_swapped(tid, status, result, error) ==
    [t \in (DOMAIN TASKS) \cup {tid} |->
        IF t = tid
        THEN [status |-> status, result |-> error, error |-> result,
              timestamp |-> now]
        ELSE TASKS[t]]

\* the dict update_task_status leaves behind
update_task_status(tid, status, result, error) ==
    [t \in (DOMAIN TASKS) \cup {tid} |->
        IF t = tid
        THEN [status |-> status, result |-> result, error |-> error,
              timestamp |-> now]
        ELSE TASKS[t]]

\* body of update_task_status and exit of its `with` block
WriteAndRelease(tid, status, result, error) ==
    /\ TASKS' = update_task_status(tid, status, result, error)
    /\ TASKS_LOCK' = NoThread
    /\ writes' = [writes EXCEPT ![tid] = Append(@, status)]
    /\ UNCHANGED evicted

(* ---------------- cleanup_old_tasks (called by upload) ---------------- *)
\* the comparison written >= instead of >
IsStale_Inclusive(timestamp, cur) == cur - timestamp >= RETENTION

\* the window taken in the wrong unit: half an hour
IsStale_HalfWindow(timestamp, cur) == cur - timestamp > RETENTION \div 2

\* current_time - info.get('timestamp', 0) > 3600
IsStale(timestamp, cur) == cur - timestamp > RETENTION

\* A POST /upload is served: the handler calls cleanup_old_tasks first, so
\* its first step is to enter `with TASKS_LOCK:` (a handler waiting for the
\* lock has done nothing yet), read the clock and build to_remove.
\* Requests are numbered in order of arrival.
CleanupScan(r) ==
    /\ upc[r] = "idle"
    /\ \A q \in Reqs : q < r => upc[q] # "idle"
    /\ \E rq \in Requests : request' = [request EXCEPT ![r] = rq]
    /\ Acquire(UploadThread(r))
    /\ current_time' = [current_time EXCEPT ![r] = now]
    /\ to_remove' = [to_remove EXCEPT ![r] =
                       {t \in DOMAIN TASKS : IsStale(TASKS[t].timestamp, now)}]
    /\ before' = [before EXCEPT ![r] = TASKS]
    /\ upc' = [upc EXCEPT ![r] = "cleanup_del"]
    /\ UNCHANGED <<TASKS, env, study, task_id, wvars, files, svars, hist>>

\* for tid in to_remove: del TASKS[tid]
CleanupDelete(r) ==
    /\ upc[r] = "cleanup_del"
    /\ \E tid \in to_remove[r] :
         /\ TASKS' = [t \in (DOMAIN TASKS) \ {tid} |-> TASKS[t]]
         /\ to_remove' = [to_remove EXCEPT ![r] = @ \ {tid}]
         /\ evicted' = evicted \cup {tid}
    /\ UNCHANGED <<TASKS_LOCK, env, study, upc, request, task_id, current_time,
                   before, wvars, files, svars, writes>>

\* the loop is over: leave the `with` block
CleanupRelease(r) ==
    /\ upc[r] = "cleanup_del"
    /\ to_remove[r] = {}
    /\ TASKS_LOCK' = NoThread
    /\ before' = [before EXCEPT ![r] = EmptyMap]
    /\ current_time' = [current_time EXCEPT ![r] = 0]
    /\ upc' = [upc EXCEPT ![r] = "validate"]
    /\ UNCHANGED <<TASKS, env, study, request, task_id, to_remove,
                   wvars, files, svars, writes, evicted>>

(* ---------------- upload ---------------- *)
Ext(r) == splitext_lower(request[r].filename)

\* the checks of upload without the one on the extension
Accepted_AnyExtension(r) ==
    /\ request[r].has_file
    /\ request[r].filename # ""

\* the three checks of upload that answer 400
Accepted(r) ==
    /\ request[r].has_file
    /\ request[r].filename # ""
    /\ Ext(r) \in IMAGE_EXTS \cup VIDEO_EXTS

UploadReject(r) ==
    /\ upc[r] = "validate"
    /\ ~Accepted(r)
    /\ upc' = [upc EXCEPT ![r] = "rejected"]
    /\ UNCHANGED <<reg, env, study, request, task_id, to_remove, current_time,
                   before, wvars, files, svars, hist>>

\* uuid.uuid4().hex: an id no earlier call returned.  Ids are opaque, so
\* the least unused one stands for any fresh id.
uuid4 ==
    LET unused == TaskIds \ {task_id[q] : q \in Reqs}
    IN {t \in unused : \A u \in unused : t <= u}

\* task_id = uuid4().hex; file.save(input_path)
UploadSave(r) ==
    /\ upc[r] = "validate"
    /\ Accepted(r)
    /\ \E id \in uuid4 :
         /\ task_id' = [task_id EXCEPT ![r] = id]
         /\ uploads' = uploads \cup {input_filename(id, Ext(r))}
    /\ upc' = [upc EXCEPT ![r] = "queued_acquire"]
    /\ UNCHANGED <<reg, env, study, request, to_remove, current_time, before,
                   wvars, output, svars, hist>>

\* file.save raises: the handler answers 500, nothing else happens
UploadSaveFails(r) ==
    /\ upc[r] = "validate"
    /\ Accepted(r)
    /\ \E id \in uuid4 : task_id' = [task_id EXCEPT ![r] = id]
    /\ upc' = [upc EXCEPT ![r] = "error"]
    /\ UNCHANGED <<reg, env, study, request, to_remove, current_time, before,
                   wvars, files, svars, hist>>

\* update_task_status(task_id, 'queued')
UploadQueuedAcquire(r) ==
    /\ upc[r] = "queued_acquire"
    /\ Acquire(UploadThread(r))
    /\ upc' = [upc EXCEPT ![r] = "queued_write"]
    /\ UNCHANGED <<TASKS, env, study, request, task_id, to_remove, current_time,
                   before, wvars, files, svars, hist>>

UploadQueuedWrite(r) ==
    /\ upc[r] = "queued_write"
    /\ WriteAndRelease(task_id[r], "queued", None, None)
    /\ upc' = [upc EXCEPT ![r] = "start"]
    /\ UNCHANGED <<env, study, request, task_id, to_remove, current_time, before,
                   wvars, files, svars>>

\* the thread started before update_task_status(task_id, 'queued')
UploadStartThread_BeforeInsert(r) ==
    /\ upc[r] = "queued_acquire"
    /\ wpc[r] = "unstarted"
    /\ wpc' = [wpc EXCEPT ![r] = "processing_acquire"]
    /\ UNCHANGED <<reg, env, study, uvars, exc, files, svars, hist>>

\* thread = threading.Thread(target=process_task, ...); thread.start()
UploadStartThread(r) ==
    /\ upc[r] = "start"
    /\ wpc[r] = "unstarted"
    /\ wpc' = [wpc EXCEPT ![r] = "processing_acquire"]
    /\ upc' = [upc EXCEPT ![r] = "return"]
    /\ UNCHANGED <<reg, env, study, request, task_id, to_remove, current_time,
                   before, exc, files, svars, hist>>

\* return jsonify({'success': True, 'task_id': task_id, ...})
UploadReturn(r) ==
    /\ upc[r] = "return"
    /\ upc' = [upc EXCEPT ![r] = "returned"]
    /\ UNCHANGED <<reg, env, study, request, task_id, to_remove, current_time,
                   before, wvars, files, svars, hist>>

(* ---------------- process_task: the background worker ---------------- *)
\* str(e) of the exceptions the worker can meet.  The libraries' messages
\* (PIL cannot open or write an image or load the font, ffmpeg cannot be
\* executed, os.remove is refused) are all OSErrors and stand as one message;
\* the other is the Exception(f"FFmpeg failed: {ex}") of add_watermark_to_video.
OSErrorMsg == "OSError"
FFmpegFailedMsg == "FFmpeg failed"

\* the worker reading a task id shared by all requests (the latest one)
\* instead of its own argument
WorkerTaskId_Shared(r) ==
    CHOOSE t \in {task_id[q] : q \in Reqs} : \A q \in Reqs : task_id[q] <= t

\* the task_id argument bound when the thread was created
WorkerTaskId(r) == task_id[r]

\* no except clause catches the exception: the thread ends
Raise_Uncaught(r, msg) ==
    /\ wpc' = [wpc EXCEPT ![r] = "dead"]
    /\ exc' = [exc EXCEPT ![r] = ""]

\* an exception is raised inside the try block of process_task: control
\* passes to `except Exception as e`
Raise(r, msg) ==
    /\ wpc' = [wpc EXCEPT ![r] = "failed_acquire"]
    /\ exc' = [exc EXCEPT ![r] = msg]

\* update_task_status(task_id, 'processing')
ProcessingAcquire(r) ==
    /\ wpc[r] = "processing_acquire"
    /\ Acquire(WorkerThread(r))
    /\ wpc' = [wpc EXCEPT ![r] = "processing_write"]
    /\ UNCHANGED <<TASKS, env, study, uvars, exc, files, svars, hist>>

\* the lock kept after the 'processing' write, through the rendering
ProcessingWrite_HoldLock(r) ==
    /\ wpc[r] = "processing_write"
    /\ TASKS' = update_task_status(WorkerTaskId(r), "processing", None, None)
    /\ writes' = [writes EXCEPT ![WorkerTaskId(r)] = Append(@, "processing")]
    /\ wpc' = [wpc EXCEPT ![r] = "render"]
    /\ UNCHANGED <<TASKS_LOCK, evicted, env, study, uvars, exc, files, svars>>

\* the write and the release; the worker then renders
ProcessingWrite(r) ==
    /\ wpc[r] = "processing_write"
    /\ WriteAndRelease(WorkerTaskId(r), "processing", None, None)
    /\ wpc' = [wpc EXCEPT ![r] = "render"]
    /\ UNCHANGED <<env, study, uvars, exc, files, svars>>

(* add_watermark_to_image *)
\* What one call does, given what the environment does to it: whether
\* Image.open succeeds, whether ImageFont.truetype(FONT_PATH, ...) succeeds
\* and whether out.save succeeds.  exc is the message of the exception the
\* call raises ("" when it returns), written whether output_path was written.
add_watermark_to_image(open_ok, font_ok, save_ok) ==
    IF ~open_ok THEN [exc |-> OSErrorMsg, written |-> FALSE]
    ELSE IF ~font_ok THEN [exc |-> OSErrorMsg, written |-> FALSE]
    ELSE IF ~save_ok THEN [exc |-> OSErrorMsg, written |-> FALSE]
    ELSE [exc |-> "", written |-> TRUE]

(* add_watermark_to_video *)
EncodeOutcomes == {"ok", "CalledProcessError", "OSError"}

\* the video pipeline retrying after every failure of the first encoder run
add_watermark_to_video_RetryAny(probe_ok, font_ok, temp_ok, partial, enc1, enc2) ==
    LET w == IF probe_ok THEN PROBED_WIDTH ELSE DEFAULT_WIDTH IN
    IF ~font_ok \/ ~temp_ok
    THEN [exc |-> OSErrorMsg, written |-> FALSE, width |-> w,
          calls |-> 0, temp_left |-> (font_ok /\ partial)]
    ELSE IF enc1 = "ok"
    THEN [exc |-> "", written |-> TRUE, width |-> w,
          calls |-> 1, temp_left |-> FALSE]
    ELSE IF enc2 = "ok"
    THEN [exc |-> "", written |-> TRUE, width |-> w,
          calls |-> 2, temp_left |-> FALSE]
    ELSE [exc |-> FFmpegFailedMsg, written |-> FALSE, width |-> w,
          calls |-> 2, temp_left |-> FALSE]

\* the video pipeline letting a failure of the probe escape: no fallback
add_watermark_to_video_ProbeRaises(probe_ok, font_ok, temp_ok, partial, enc1, enc2) ==
    IF ~probe_ok
    THEN [exc |-> OSErrorMsg, written |-> FALSE, width |-> DEFAULT_WIDTH,
          calls |-> 0, temp_left |-> FALSE]
    ELSE IF ~font_ok
    THEN [exc |-> OSErrorMsg, written |-> FALSE, width |-> PROBED_WIDTH,
          calls |-> 0, temp_left |-> FALSE]
    ELSE IF ~temp_ok
    THEN [exc |-> OSErrorMsg, written |-> FALSE, width |-> PROBED_WIDTH,
          calls |-> 0, temp_left |-> partial]
    ELSE IF enc1 = "ok"
    THEN [exc |-> "", written |-> TRUE, width |-> PROBED_WIDTH,
          calls |-> 1, temp_left |-> FALSE]
    ELSE IF enc1 = "OSError"
    THEN [exc |-> OSErrorMsg, written |-> FALSE, width |-> PROBED_WIDTH,
          calls |-> 1, temp_left |-> FALSE]
    ELSE IF enc2 = "ok"
    THEN [exc |-> "", written |-> TRUE, width |-> PROBED_WIDTH,
          calls |-> 2, temp_left |-> FALSE]
    ELSE [exc |-> FFmpegFailedMsg, written |-> FALSE, width |-> PROBED_WIDTH,
          calls |-> 2, temp_left |-> FALSE]

\* What one call does, given the environment: whether ffprobe's output is
\* parsed, whether the font loads, whether txt_img.save succeeds and, if it
\* fails, whether it leaves a partial file, how the first subprocess.run ends
\* and how the second one ends.  width is the raster's width, calls the
\* number of encoder invocations, temp_left whether temp_wm_path still
\* exists when the call returns or raises.
add_watermark_to_video(probe_ok, font_ok, temp_ok, partial, enc1, enc2) ==
    LET w == IF probe_ok THEN PROBED_WIDTH ELSE DEFAULT_WIDTH IN
    IF ~font_ok
    THEN [exc |-> OSErrorMsg, written |-> FALSE, width |-> w,
          calls |-> 0, temp_left |-> FALSE]
    ELSE IF ~temp_ok
    THEN \* txt_img.save is outside the try/finally
         [exc |-> OSErrorMsg, written |-> FALSE, width |-> w,
          calls |-> 0, temp_left |-> partial]
    ELSE IF enc1 = "ok"
    THEN [exc |-> "", written |-> TRUE, width |-> w,
          calls |-> 1, temp_left |-> FALSE]
    ELSE IF enc1 = "OSError"
    THEN \* not a CalledProcessError: no retry, the finally clause runs
         [exc |-> OSErrorMsg, written |-> FALSE,
          width |-> w, calls |-> 1, temp_left |-> FALSE]
    ELSE IF enc2 = "ok"
    THEN [exc |-> "", written |-> TRUE, width |-> w,
          calls |-> 2, temp_left |-> FALSE]
    ELSE [exc |-> FFmpegFailedMsg, written |-> FALSE, width |-> w,
          calls |-> 2, temp_left |-> FALSE]

\* the rendering call's exception swallowed: the worker goes on as after a
\* return
RenderEnds_Swallowed(r, run, temp_left) ==
    /\ output' = output
                 \cup (IF run.written
                       THEN {output_filename(WorkerTaskId(r), Ext(r))} ELSE {})
                 \cup (IF temp_left THEN {temp_wm_path(r)} ELSE {})
    /\ wpc' = [wpc EXCEPT ![r] = "cleanup_input"]
    /\ UNCHANGED exc

\* the rendering call of process_task returns or raises; its files appear
\* in OUTPUT_FOLDER
RenderEnds(r, run, temp_left) ==
    /\ output' = output
                 \cup (IF run.written
                       THEN {output_filename(WorkerTaskId(r), Ext(r))} ELSE {})
                 \cup (IF temp_left THEN {temp_wm_path(r)} ELSE {})
    /\ IF run.exc = ""
       THEN /\ wpc' = [wpc EXCEPT ![r] = "cleanup_input"]
            /\ UNCHANGED exc
       ELSE Raise(r, run.exc)

\* if ext in IMAGE_EXTS: add_watermark_to_image(input_path, output_path),
\* with Image.open and out.save answering open_ok and save_ok
RenderImageWith(r, open_ok, save_ok) ==
    /\ wpc[r] = "render"
    /\ Ext(r) \in IMAGE_EXTS
    /\ RenderEnds(r, add_watermark_to_image(open_ok, fontOK, save_ok), FALSE)
    /\ UNCHANGED <<reg, env, uvars, uploads, svars, hist>>

RenderImage(r) ==
    /\ \E open_ok, save_ok \in BOOLEAN : RenderImageWith(r, open_ok, save_ok)
    /\ UNCHANGED study

\* elif ext in VIDEO_EXTS: add_watermark_to_video(input_path, output_path),
\* with ffprobe, txt_img.save and the two ffmpeg runs answering as given
RenderVideoWith(r, probe_ok, temp_ok, partial, enc1, enc2) ==
    /\ wpc[r] = "render"
    /\ Ext(r) \notin IMAGE_EXTS
    /\ Ext(r) \in VIDEO_EXTS
    /\ LET run_ == add_watermark_to_video(probe_ok, fontOK, temp_ok, partial,
                                            enc1, enc2)
       IN RenderEnds(r, run_, run_.temp_left)
    /\ UNCHANGED <<reg, env, uvars, uploads, svars, hist>>

RenderVideo(r) ==
    /\ \E probe_ok, temp_ok, partial \in BOOLEAN, enc1 \in EncodeOutcomes,
          enc2 \in {"ok", "CalledProcessError"} :
         RenderVideoWith(r, probe_ok, temp_ok, partial, enc1, enc2)
    /\ UNCHANGED study

(* back in process_task *)
InputOf(r) == input_filename(WorkerTaskId(r), Ext(r))

\* if os.path.exists(input_path): os.remove(input_path), inside the try
CleanupInput(r) ==
    /\ wpc[r] = "cleanup_input"
    /\ \/ /\ uploads' = uploads \ {InputOf(r)}
          /\ wpc' = [wpc EXCEPT ![r] = "completed_acquire"]
          /\ UNCHANGED exc
       \/ /\ InputOf(r) \in uploads
          /\ Raise(r, OSErrorMsg)
          /\ UNCHANGED uploads
    /\ UNCHANGED <<reg, env, study, uvars, output, svars, hist>>

\* update_task_status(task_id, 'completed', result={...})
CompletedAcquire(r) ==
    /\ wpc[r] = "completed_acquire"
    /\ Acquire(WorkerThread(r))
    /\ wpc' = [wpc EXCEPT ![r] = "completed_write"]
    /\ UNCHANGED <<TASKS, env, study, uvars, exc, files, svars, hist>>

Result(r) ==
    [filename |-> output_filename(WorkerTaskId(r), Ext(r)),
     original_name |-> request[r].filename,
     type |-> IF Ext(r) \in IMAGE_EXTS THEN "image" ELSE "video"]

\* the input cleanup placed after the 'completed' write, still inside the
\* try block, and failing
CompletedWrite_ThenRaise(r) ==
    /\ wpc[r] = "completed_write"
    /\ WriteAndRelease(WorkerTaskId(r), "completed", Some(Result(r)), None)
    /\ Raise(r, OSErrorMsg)
    /\ UNCHANGED <<env, study, uvars, files, svars>>

CompletedWrite(r) ==
    /\ wpc[r] = "completed_write"
    /\ WriteAndRelease(WorkerTaskId(r), "completed", Some(Result(r)), None)
    /\ wpc' = [wpc EXCEPT ![r] = "done"]
    /\ UNCHANGED <<env, study, uvars, exc, files, svars>>

\* except Exception as e: update_task_status(task_id, 'failed', error=str(e))
FailedAcquire(r) ==
    /\ wpc[r] = "failed_acquire"
    /\ Acquire(WorkerThread(r))
    /\ wpc' = [wpc EXCEPT ![r] = "failed_write"]
    /\ UNCHANGED <<TASKS, env, study, uvars, exc, files, svars, hist>>

FailedWrite(r) ==
    /\ wpc[r] = "failed_write"
    /\ WriteAndRelease(WorkerTaskId(r), "failed", None, Some(exc[r]))
    /\ wpc' = [wpc EXCEPT ![r] = "cleanup_failed"]
    /\ exc' = [exc EXCEPT ![r] = ""]
    /\ UNCHANGED <<env, study, uvars, files, svars>>

\* if os.path.exists(input_path): os.remove(input_path), in the handler:
\* an exception here ends the thread
CleanupFailed(r) ==
    /\ wpc[r] = "cleanup_failed"
    /\ \/ /\ uploads' = uploads \ {InputOf(r)}
          /\ wpc' = [wpc EXCEPT ![r] = "done"]
       \/ /\ InputOf(r) \in uploads
          /\ wpc' = [wpc EXCEPT ![r] = "dead"]
          /\ UNCHANGED uploads
    /\ UNCHANGED <<reg, env, study, uvars, exc, output, svars, hist>>

(* ---------------- status ---------------- *)
\* a GET /status/<task_id> arrives
StatusArrive ==
    /\ spc = "idle"
    /\ \E t \in TaskIds : sid' = t
    /\ spc' = "status_acquire"
    /\ UNCHANGED <<reg, env, study, uvars, wvars, files, hist>>

\* the status handler reading TASKS without taking TASKS_LOCK
StatusAcquire_NoLock ==
    /\ spc = "status_acquire"
    /\ spc' = "status_read"
    /\ UNCHANGED <<reg, env, study, uvars, wvars, files, sid, hist>>

StatusAcquire ==
    /\ spc = "status_acquire"
    /\ Acquire(StatusThread)
    /\ spc' = "status_read"
    /\ UNCHANGED <<TASKS, env, study, uvars, wvars, files, sid, hist>>

\* TASKS.get(task_id): the dict stored under the key, or None
TasksGet(t) == IF t \in DOMAIN TASKS THEN Some(TASKS[t]) ELSE None

\* if not task_info: 404 'Task not found'; else jsonify(task_info)
Response(info) ==
    IF info = None THEN [code |-> 404, body |-> None]
                   ELSE [code |-> 200, body |-> info]

\* the response the handler, now inside the `with` block, is about to send
StatusResponse == Response(TasksGet(sid))

\* task_info = TASKS.get(task_id), the exit of the `with` block and the
\* response.  update_task_status never changes a stored dict, it stores a
\* new one, so the dict read here is the dict that is serialised after the
\* lock is released: the response is StatusResponse as of this step.
StatusRead ==
    /\ spc = "status_read"
    /\ TASKS_LOCK' = NoThread
    /\ spc' = "idle"
    /\ sid' = 0
    /\ UNCHANGED <<TASKS, env, study, uvars, wvars, files, hist>>

(* ---------------- the system ---------------- *)
UploadStep(r) ==
    \/ CleanupScan(r)
    \/ CleanupDelete(r)
    \/ CleanupRelease(r)
    \/ UploadReject(r)
    \/ UploadSave(r)
    \/ UploadSaveFails(r)
    \/ UploadQueuedAcquire(r)
    \/ UploadQueuedWrite(r)
    \/ UploadStartThread(r)
    \/ UploadReturn(r)

RenderStep(r) ==
    \/ RenderImage(r)
    \/ RenderVideo(r)

RegistryStep(r) ==
    \/ ProcessingAcquire(r)
    \/ ProcessingWrite(r)
    \/ CompletedAcquire(r)
    \/ CompletedWrite(r)
    \/ FailedAcquire(r)
    \/ FailedWrite(r)

InputStep(r) ==
    \/ CleanupInput(r)
    \/ CleanupFailed(r)

WorkerStep(r) == RegistryStep(r) \/ RenderStep(r) \/ InputStep(r)

StatusStep ==
    \/ StatusArrive
    \/ StatusAcquire
    \/ StatusRead

Next ==
    \/ Tick
    \/ \E r \in Reqs : UploadStep(r)
    \/ \E r \in Reqs : WorkerStep(r)
    \/ StatusStep

Spec == Init /\ [][Next]_vars

\* The clock under the fair specifications: the Ticks up to MaxNow taken in
\* a row, once.  It is taken while the registry holds an entry and an upload
\* is still to arrive: the clock is compared only by a sweep, and a sweep
\* runs only at the start of an upload, so any other advance of the clock
\* shifts timestamps and changes no step of any thread.
Leap ==
    /\ TASKS_LOCK = NoThread
    /\ now = 0
    /\ DOMAIN TASKS # {}
    /\ \E r \in Reqs : upc[r] = "idle"
    /\ now' = MaxNow
    /\ UNCHANGED <<fontOK, study, reg, uvars, wvars, files, svars, hist>>

\* the system with the clock advancing in one leap
NextLeap ==
    \/ Leap
    \/ \E r \in Reqs : UploadStep(r)
    \/ \E r \in Reqs : WorkerStep(r)
    \/ StatusStep

\* Fair scheduling: a thread that can take a step infinitely often takes it
\* (so no thread starves at TASKS_LOCK), and every rendering call returns or
\* raises.  Clients need never poll, but a status handler inside the lock
\* leaves it.
LiveSpec ==
    /\ Init
    /\ [][NextLeap]_vars
    /\ \A r \in Reqs : SF_vars(UploadStep(r)) /\ SF_vars(WorkerStep(r))
    /\ WF_vars(StatusRead)

\* Scheduling that promises nothing about rendering: only the status handler
\* and the threads inside a `with TASKS_LOCK:` block are sure to go on.
PollSpec ==
    /\ Init
    /\ [][NextLeap]_vars
    /\ SF_vars(StatusAcquire)
    /\ WF_vars(StatusRead)
    /\ \A r \in Reqs :
         /\ WF_vars(CleanupDelete(r) \/ CleanupRelease(r) \/ UploadQueuedWrite(r))
         /\ WF_vars(ProcessingWrite(r) \/ CompletedWrite(r) \/ FailedWrite(r))

(* ---------------- one job, with its rendering call recorded ---------------- *)
\* how subprocess.check_output(cmd_probe) and the parsing of its output end
ProbeOutcomes == {"ok", "CalledProcessError", "FileNotFoundError", "unparsable"}

\* what the libraries and the external tools answer during the job
Fates ==
    [probe : ProbeOutcomes, temp_ok : BOOLEAN, partial : BOOLEAN,
     enc1 : EncodeOutcomes, enc2 : EncodeOutcomes,
     open_ok : BOOLEAN, save_ok : BOOLEAN]

\* the request under study: the first to arrive
Job == CHOOSE r \in Reqs : \A q \in Reqs : r <= q

JobInit ==
    /\ InitApp
    /\ fate \in Fates
    /\ rendered = None
    /\ NoLayout

\* the image pipeline, as process_task calls it
JobRenderImage ==
    /\ RenderImageWith(Job, fate.open_ok, fate.save_ok)
    /\ rendered' =
          LET run_ == add_watermark_to_image(fate.open_ok, fontOK, fate.save_ok)
          IN Some([kind |-> "image", exc |-> run_.exc, written |-> run_.written,
                   width |-> 0, calls |-> 0, temp_left |-> FALSE])
    /\ UNCHANGED <<fate, img_width, chars_width, font_size>>

\* the video pipeline, as process_task calls it: the probe's except clause
\* catches every Exception, so only fate.probe = "ok" yields the probed size
JobRenderVideo ==
    /\ RenderVideoWith(Job, fate.probe = "ok", fate.temp_ok, fate.partial,
                       fate.enc1, fate.enc2)
    /\ rendered' =
          LET run_ == add_watermark_to_video(fate.probe = "ok", fontOK,
                                             fate.temp_ok, fate.partial,
                                             fate.enc1, fate.enc2)
          IN Some([kind |-> "video", exc |-> run_.exc, written |-> run_.written,
                   width |-> run_.width, calls |-> run_.calls,
                   temp_left |-> run_.temp_left])
    /\ UNCHANGED <<fate, img_width, chars_width, font_size>>

\* one upload and its worker, nothing else: the registry is empty when the
\* job's sweep runs, so the sweep deletes nothing
JobNext ==
    \/ CleanupScan(Job)
    \/ CleanupRelease(Job)
    \/ UploadReject(Job)
    \/ UploadSave(Job)
    \/ UploadSaveFails(Job)
    \/ UploadQueuedAcquire(Job)
    \/ UploadQueuedWrite(Job)
    \/ UploadStartThread(Job)
    \/ UploadReturn(Job)
    \/ RegistryStep(Job)
    \/ JobRenderImage
    \/ JobRenderVideo
    \/ InputStep(Job)

\* the handler and the worker keep running, and the rendering call ends
JobSpec == JobInit /\ [][JobNext]_vars /\ WF_vars(JobNext)

(* ---------------- get_optimal_font_size ---------------- *)
\* get_optimal_font_size without the test `if total_width <= 0`
get_optimal_font_size_Unguarded(font_ok, width, chars) ==
    LET total == chars + (N_CHARS - 1) * SPACING
        num == REF_SIZE * TARGET_WIDTH_PCT * width
        den == 100 * total
    IN IF ~font_ok THEN {[exc |-> "", size |-> width \div FALLBACK_DIV]}
       ELSE IF total = 0 THEN {[exc |-> "ZeroDivisionError", size |-> 0]}
       ELSE IF total < 0 THEN {[exc |-> "", size |-> 0 - (num \div (0 - den))]}
       ELSE {[exc |-> "", size |-> num \div den]}

\* get_optimal_font_size returning round(ref_size * scale_factor)
get_optimal_font_size_Rounded(font_ok, width, chars) ==
    LET total == chars + (N_CHARS - 1) * SPACING
        num == REF_SIZE * TARGET_WIDTH_PCT * width
        den == 100 * total
    IN IF ~font_ok THEN {[exc |-> "", size |-> width \div FALLBACK_DIV]}
       ELSE IF total <= 0 THEN {[exc |-> "", size |-> REF_SIZE]}
       ELSE {[exc |-> "", size |-> (2 * num + den) \div (2 * den)]}

\* int(x) of the float x computed for the exact quotient num / den, both
\* positive: the integer part; binary floating point (0.65 is no binary
\* fraction) may land just below a quotient that is an exact integer, and
\* int() then gives one less (width 7, total 5: 90 where 65 * 7 / 5 = 91)
FloatInt(num, den) ==
    {num \div den} \cup (IF num % den = 0 THEN {num \div den - 1} ELSE {})

\* total_width as the loop over WATERMARK_TEXT leaves it: every char_w plus
\* spacing, less one spacing
TotalWidth(chars) == chars + (N_CHARS - 1) * SPACING

\* The values one call may return, given whether the font loads, the canvas
\* width and the sum of the characters' widths measured at ref_size.
get_optimal_font_size(font_ok, width, chars) ==
    LET total == TotalWidth(chars)
        num == REF_SIZE * TARGET_WIDTH_PCT * width
        den == 100 * total
    IN IF ~font_ok THEN {[exc |-> "", size |-> width \div FALLBACK_DIV]}
       ELSE IF total <= 0 THEN {[exc |-> "", size |-> REF_SIZE]}
       ELSE {[exc |-> "", size |-> v] : v \in FloatInt(num, den)}

\* a call get_optimal_font_size(img_width) is about to be made
LayoutInit ==
    /\ InitApp
    /\ fate = None
    /\ rendered = None
    /\ img_width \in 1..MaxWidth
    /\ chars_width \in 0..MaxCharsWidth
    /\ font_size = None

\* the call returns or raises
LayoutCall ==
    /\ font_size = None
    /\ \E v \in get_optimal_font_size(fontOK, img_width, chars_width) :
         font_size' = Some(v)
    /\ UNCHANGED <<reg, env, uvars, wvars, files, svars, hist, fate, rendered,
                   img_width, chars_width>>

LayoutSpec == LayoutInit /\ [][LayoutCall]_vars

(* ======================= the claims ======================= *)
Terminal == {"completed", "failed"}
Lifecycle(w) ==
    /\ Len(w) <= 3
    /\ Len(w) >= 1 => w[1] = "queued"
    /\ Len(w) >= 2 => w[2] = "processing"
    /\ Len(w) >= 3 => w[3] \in Terminal
\* the number of terminal statuses written for task id t
NTerminal(t) == Cardinality({i \in 1..Len(writes[t]) : writes[t][i] \in Terminal})
\* the threads that are inside a `with TASKS_LOCK:` block
Inside ==
    {UploadThread(r) : r \in {q \in Reqs : upc[q] \in {"cleanup_del", "queued_write"}}}
    \cup {WorkerThread(r) : r \in {q \in Reqs :
              wpc[q] \in {"processing_write", "completed_write", "failed_write"}}}
    \cup (IF spc = "status_read" THEN {StatusThread} ELSE {})

\* C1: for every task id the statuses written to the registry are, in order,
\* queued, processing and then one of completed or failed; nothing is written
\* for the id after a terminal status, by any thread.
C1_StatusOrder == \A t \in TaskIds : Lifecycle(writes[t])

\* C1 witness: a task whose three writes are done and whose entry shows the
\* terminal status.
C1_Witness ==
    \E t \in DOMAIN TASKS : Len(writes[t]) = 3 /\ TASKS[t].status = "completed"

\* upload has validated request r and saved its input
UploadAccepted(r) == task_id[r] \in TaskIds /\ upc[r] # "error"

\* C2: under fair scheduling, with every rendering call returning or raising,
\* no task ever has two terminal statuses written, and from some moment on
\* every task whose input upload has saved has exactly one, written by its
\* worker, which has ended.
C2_EventuallyOneTerminal ==
    /\ [](\A t \in TaskIds : NTerminal(t) <= 1)
    /\ <>[](\A r \in Reqs :
               UploadAccepted(r)
                  => wpc[r] \in {"done", "dead"} /\ NTerminal(task_id[r]) = 1)

\* C2 witness: two tasks have ended, one by a failure and one by success.
C2_Witness ==
    \E r, q \in Reqs :
        /\ wpc[r] = "done" /\ wpc[q] = "done"
        /\ writes[task_id[r]][3] = "failed"
        /\ writes[task_id[q]][3] = "completed"

\* the fields of one registry entry agree with its status
FieldsAgree(info) ==
    /\ info.status \in {"queued", "processing"}
          => info.result = None /\ info.error = None
    /\ info.status = "completed" => info.result # None /\ info.error = None
    /\ info.status = "failed" => info.error # None /\ info.result = None
    /\ info.status \in {"queued", "processing"} \cup Terminal

\* C3: in every reachable registry state the fields of every entry agree with
\* its status (result and error empty before a terminal status, result alone
\* after completed, error alone after failed), and the entry a status poll
\* reads and answers with is one such entry, never a mix of two updates.
C3_FieldsAgree ==
    /\ \A t \in DOMAIN TASKS : FieldsAgree(TASKS[t])
    /\ spc = "status_read" /\ StatusResponse.code = 200
          => /\ FieldsAgree(StatusResponse.body[1])
             /\ StatusResponse.body[1] = TASKS[sid]

\* C3 witness: a status poll is reading the entry of a task whose worker is
\* at that moment waiting to write its outcome.
C3_Witness ==
    /\ spc = "status_read"
    /\ \E r \in Reqs : task_id[r] = sid /\ wpc[r] = "failed_acquire"
                       /\ sid \in DOMAIN TASKS

\* C4: once the eviction sweep has removed the entry of a task id, every
\* later status query for that id answers not-found, also when the worker
\* reports its outcome after the sweep.
C4_EvictedStaysGone ==
    spc = "status_read" /\ sid \in evicted => StatusResponse.code = 404

\* C5 as stated: when upload returns a task id the registry contains an entry
\* for that id.
C5_EntryPresentAtReturn ==
    [][\A r \in Reqs :
          upc[r] = "return" /\ upc'[r] = "returned"
             => task_id[r] \in DOMAIN TASKS]_vars

\* C5 amended: once the worker thread has been started, and so when upload
\* returns the task id, the queued record has been written, it is the first
\* write for that id and the only queued one (it never overwrites a later
\* status), and the entry is in the registry unless a sweep has evicted it.
C5_QueuedFirst ==
    \A r \in Reqs :
        wpc[r] # "unstarted" \/ upc[r] \in {"return", "returned"}
           => LET t == task_id[r] IN
              /\ t \in TaskIds
              /\ Len(writes[t]) >= 1
              /\ \A i \in 1..Len(writes[t]) : writes[t][i] = "queued" <=> i = 1
              /\ t \in DOMAIN TASKS \/ t \in evicted

\* C5 witness: upload is about to return the id of a task that its worker
\* has already completed.
C5_Witness ==
    \E r \in Reqs :
        /\ upc[r] = "return"
        /\ task_id[r] \in DOMAIN TASKS
        /\ TASKS[task_id[r]].status = "completed"

\* C6 as stated (first half): a task whose last update is more than the
\* retention window in the past is absent from status queries.
C6_StaleIsAbsent ==
    \A t \in DOMAIN TASKS : now - TASKS[t].timestamp <= RETENTION

\* C6 amended: an entry leaves the registry only when its last update is more
\* than the retention window in the past (so a younger one is still
\* present), and when a sweep ends no entry that old is left; between sweeps,
\* which run only at the start of an upload, an older entry stays visible.
C6_EvictedOnlyWhenStale ==
    [][/\ \A t \in DOMAIN TASKS :
             t \notin DOMAIN TASKS' => now - TASKS[t].timestamp > RETENTION
       /\ \A r \in Reqs :
             upc[r] = "cleanup_del" /\ upc'[r] = "validate"
                => \A t \in DOMAIN TASKS' :
                      current_time[r] - TASKS'[t].timestamp <= RETENTION]_vars

\* C6 witness: a sweep has removed one task and the registry holds another.
C6_Witness ==
    \E t \in evicted : t \notin DOMAIN TASKS /\ DOMAIN TASKS # {}

\* C7: when a run of the sweep that read the time current_time has done its
\* deletions, the registry holds exactly the entries it found whose age
\* current_time - timestamp is at most 3600, each with all fields unchanged,
\* whatever their status.
C7_SweepExact ==
    \A r \in Reqs :
        upc[r] = "cleanup_del" /\ to_remove[r] = {}
           => /\ DOMAIN TASKS =
                   {t \in DOMAIN before[r] :
                       current_time[r] - before[r][t].timestamp <= RETENTION}
              /\ \A t \in DOMAIN TASKS : TASKS[t] = before[r][t]

\* C7 witness: a sweep has finished and has removed an entry that was still
\* processing.
C7_Witness ==
    \E r \in Reqs :
        /\ upc[r] = "cleanup_del" /\ to_remove[r] = {}
        /\ \E t \in (DOMAIN before[r]) \ (DOMAIN TASKS) :
              before[r][t].status = "processing"

\* C8: a thread is inside an access to the task map only while it holds
\* TASKS_LOCK, so at most one thread is inside at a time, and while a sweep
\* is between its scan and its last deletion no other thread has changed
\* any entry.
C8_MutualExclusion ==
    /\ \A th \in Inside : TASKS_LOCK = th
    /\ Cardinality(Inside) <= 1
    /\ \A r \in Reqs :
          upc[r] = "cleanup_del"
             => /\ DOMAIN TASKS \subseteq DOMAIN before[r]
                /\ \A t \in DOMAIN TASKS : TASKS[t] = before[r][t]
                /\ to_remove[r] \subseteq DOMAIN TASKS

\* C8 witness: a worker is inside its update while a status handler waits
\* for the lock.
C8_Witness ==
    /\ spc = "status_acquire"
    /\ \E r \in Reqs : wpc[r] = "completed_write"

\* C9: a worker that is rendering does not hold TASKS_LOCK, and a status
\* query that has arrived is answered even if no rendering call ever ends.
C9_RenderingUnlocked ==
    /\ [](\A r \in Reqs : wpc[r] = "render" => TASKS_LOCK # WorkerThread(r))
    /\ (spc = "status_acquire") ~> (spc = "idle")

\* C9 witness: the status handler is inside the lock while every worker is
\* rendering.
C9_Witness ==
    /\ spc = "status_read"
    /\ \A r \in Reqs : wpc[r] = "render"

\* the worker of request r has reported a failure
HasFailed(r) ==
    /\ task_id[r] \in TaskIds
    /\ \E i \in 1..Len(writes[task_id[r]]) : writes[task_id[r]][i] = "failed"

\* C10: accepted uploads get pairwise distinct task ids, a step of a worker
\* changes no registry entry but that of its own task id, and from some
\* moment on every job whose worker was started beside a job that failed has
\* ended with exactly one terminal status of its own.
C10_Isolation ==
    /\ [](\A r, q \in Reqs :
             r # q /\ task_id[r] # 0 => task_id[r] # task_id[q])
    /\ [][\A r \in Reqs :
             wpc'[r] # wpc[r]
                => \A t \in (DOMAIN TASKS) \cup (DOMAIN TASKS') :
                      t # task_id[r]
                         => /\ t \in DOMAIN TASKS /\ t \in DOMAIN TASKS'
                            /\ TASKS'[t] = TASKS[t]]_vars
    /\ <>[](\A r, q \in Reqs :
               r # q /\ HasFailed(r) /\ wpc[q] # "unstarted"
                  => wpc[q] \in {"done", "dead"} /\ NTerminal(task_id[q]) = 1)

\* C10 witness: of two tasks in the registry one has failed and the other
\* has completed.
C10_Witness ==
    \E t, u \in DOMAIN TASKS :
        TASKS[t].status = "failed" /\ TASKS[u].status = "completed"

(* ---------------- claims about one job (JobSpec) ---------------- *)
\* the rendering call of the job has ended, and was the video pipeline
VideoRendered == rendered # None /\ rendered[1].kind = "video"
\* the image pipeline
ImageRendered == rendered # None /\ rendered[1].kind = "image"
\* the worker of the job has ended
JobEnded == wpc[Job] \in {"done", "dead"}
\* the entry of the job (no sweep evicts it: it is the only upload)
JobEntry == TASKS[task_id[Job]]
\* the video pipeline got as far as its first subprocess.run(cmd_ffmpeg)
EncoderReached == fontOK /\ fate.temp_ok

C12_TempGone ==
    VideoRendered => temp_wm_path(Job) \notin output

\* everything the rendering call of the job depends on, the font apart,
\* answered without an error
OthersFine ==
    \/ ImageRendered /\ fate.open_ok /\ fate.save_ok
    \/ VideoRendered /\ fate.temp_ok /\ fate.enc1 = "ok"

\* C13: a missing font alone never makes a task end failed: when nothing but
\* the loading of the font fails, the rendering call returns.
C13_MissingFontRecovered ==
    OthersFine => rendered[1].exc = ""

\* C14: a failing probe (process error, missing tool, unparsable output)
\* never makes the video pipeline raise: the raster gets the default width,
\* the encoder is invoked whenever the font loads and the raster is saved,
\* an exception has another cause, and the task reaches a terminal status.
C14_ProbeFallback ==
    /\ [](VideoRendered /\ fate.probe # "ok"
             => /\ rendered[1].width = DEFAULT_WIDTH
                /\ EncoderReached => rendered[1].calls >= 1
                /\ EncoderReached /\ fate.enc1 = "ok" => rendered[1].exc = "")
    /\ [](VideoRendered /\ fate.probe = "ok"
             => rendered[1].width = PROBED_WIDTH)
    /\ (wpc[Job] = "render" /\ Ext(Job) \in VIDEO_EXTS /\ fate.probe # "ok")
          ~> (JobEnded /\ JobEntry.status \in Terminal)

\* C14 witness: the probe's output could not be parsed, the raster was made
\* 1920 wide and the task has ended completed.
C14_Witness ==
    /\ VideoRendered /\ JobEnded
    /\ fate.probe = "unparsable"
    /\ rendered[1].width = DEFAULT_WIDTH /\ rendered[1].calls = 1
    /\ JobEntry.status = "completed"

\* upload answers request r with 400: no 'file' part, an empty filename, or
\* an extension that is neither an image's nor a video's
Rejectable(r) ==
    \/ ~request[r].has_file
    \/ request[r].filename = ""
    \/ /\ splitext_lower(request[r].filename) \notin IMAGE_EXTS
       /\ splitext_lower(request[r].filename) \notin VIDEO_EXTS

\* C15: an upload with no file part, an empty filename or an unsupported
\* extension is rejected and creates nothing: no task id is generated and no
\* worker is started for it, and the step that rejects it changes neither
\* the registry nor the upload and output folders.
C15_RejectedCreatesNothing ==
    /\ [](\A r \in Reqs :
             upc[r] # "idle" /\ Rejectable(r)
                => /\ upc[r] \in {"cleanup_del", "validate", "rejected"}
                   /\ task_id[r] = 0
                   /\ wpc[r] = "unstarted")
    /\ [][\A r \in Reqs :
             upc[r] = "validate" /\ upc'[r] # "validate" /\ Rejectable(r)
                => /\ upc'[r] = "rejected"
                   /\ TASKS' = TASKS /\ writes' = writes
                   /\ uploads' = uploads /\ output' = output]_vars

\* C15 witness: a request with an unsupported extension has been rejected
\* while the task of another request is in the registry.
C15_Witness ==
    \E r \in Reqs :
        /\ upc[r] = "rejected" /\ request[r].filename = "c.txt"
        /\ DOMAIN TASKS # {}

\* C16: whenever the job's status is completed its rendering call returned
\* without raising and wrote the artifact, the artifact is in the output
\* folder, and the result names it watermarked_<task id><ext>, which is not
\* the name <task id><ext> of the stored input.
C16_CompletedHasArtifact ==
    task_id[Job] \in DOMAIN TASKS /\ JobEntry.status = "completed"
       => /\ rendered # None
          /\ rendered[1].exc = "" /\ rendered[1].written
          /\ JobEntry.result # None
          /\ JobEntry.result[1].filename = output_filename(task_id[Job], Ext(Job))
          /\ JobEntry.result[1].filename \in output
          /\ JobEntry.result[1].filename # input_filename(task_id[Job], Ext(Job))
          /\ JobEntry.result[1].filename.prefix = "watermarked_"

\* C16 witness: an image job has ended completed.
C16_Witness ==
    /\ ImageRendered /\ JobEnded
    /\ JobEntry.status = "completed"

\* C17 (third part): a failure of the deletion of the input file does not
\* turn a job whose rendering succeeded into a failed one.
C17_CleanupNotFatal ==
    JobEnded /\ rendered # None /\ rendered[1].exc = ""
       => JobEntry.status = "completed"

(* ---------------- claims about the layout (LayoutSpec) ---------------- *)
\* the call has returned, with the font loaded and a positive total width
Scaled ==
    /\ font_size # None /\ fontOK
    /\ TotalWidth(chars_width) > 0

\* C18 as stated: the size returned is round(100 * (0.65 * W) / T), the
\* scaled size rounded to the nearest integer.
C18_Rounded ==
    Scaled
       => LET T == TotalWidth(chars_width)
              num == REF_SIZE * TARGET_WIDTH_PCT * img_width
          IN /\ font_size[1].exc = ""
             /\ 2 * (100 * T) * font_size[1].size <= 2 * num + 100 * T
             /\ 2 * num - 100 * T <= 2 * (100 * T) * font_size[1].size

\* C18 amended: the size returned is int(100 * (0.65 * W) / T), the scaled
\* size with its fraction cut off: never above the exact value and less
\* than one below it, or exactly one below it when the exact value is an
\* integer that the floating-point computation falls just short of.
C18_Truncated ==
    Scaled
       => LET T == TotalWidth(chars_width)
              num == REF_SIZE * TARGET_WIDTH_PCT * img_width
              size == font_size[1].size
          IN /\ font_size[1].exc = ""
             /\ (100 * T) * size <= num
             /\ num <= (100 * T) * (size + 1)
             /\ num = (100 * T) * (size + 1) => num % (100 * T) = 0

\* C18 witness: width 1 and total width 3 give 21, where the exact value is
\* 21.67 and rounding would give 22.
C18_Witness ==
    /\ Scaled
    /\ img_width = 1 /\ TotalWidth(chars_width) = 3
    /\ font_size[1].size = 21

\* C19: when the total width measured at the reference size is zero or
\* negative the call returns the reference size 100 and raises nothing,
\* whatever the canvas width.
C19_DegenerateWidth ==
    font_size # None /\ fontOK /\ TotalWidth(chars_width) <= 0
       => font_size[1] = [exc |-> "", size |-> REF_SIZE]

\* C19 witness: the characters measure exactly what the negative spacing
\* takes away, the total width is 0, and 100 is returned for the widest
\* canvas.
C19_Witness ==
    /\ font_size # None /\ fontOK
    /\ TotalWidth(chars_width) = 0 /\ img_width = MaxWidth
    /\ font_size[1].size = REF_SIZE

====
